---- MODULE Spec2Model ----
(***************************************************************************)
(* Lab booking engine of mas_visualization (agents.py, simulation.py,      *)
(* main.py): the availability check, the booking / cancellation /          *)
(* student-count handlers of the per-connection MultiAgentTrafficSystem    *)
(* against the shared bookings table, and the shift negotiation of         *)
(* LabAgent.                                                               *)
(*                                                                         *)
(* Times are integers (minutes on one day).  The specifications of the     *)
(* module:                                                                 *)
(*   SpecCheck  LabAgent.check_availability as a pure function of its      *)
(*              arguments;                                                 *)
(*   Spec       the handlers of concurrent websocket sessions, split at    *)
(*              their awaits on the database;                              *)
(*   SpecShift  LabAgent.evaluate_proposal / LabAgent.shift_booking and    *)
(*              the branch of handle_shift_request that consumes them.     *)
(*   SpecScenario  the same calls on one lab with one Booking and one      *)
(*              request;                                                   *)
(*   SpecDispatch  handle_availability_query, split at its awaits;         *)
(*   SpecCommit the sessions of Spec sending book_slot only, with the      *)
(*              messages of every step observed;                           *)
(*   SpecCancel one cancel_booking message served on a filled table;       *)
(*   SpecCapacity  commits interleaved with update_lab of main.py;         *)
(*   SpecPriority  the priority computed for the row of a commit;          *)
(*   SpecInputs the commits of book_slot messages with malformed fields;   *)
(*   SpecLabAgent  a commit on the lab whose Bookings are being shifted;   *)
(*   SpecSession   commits and a negotiation whose clients may have gone   *)
(*              away, and the request_shift handler as it runs;            *)
(*   SpecExplore   a dispatch, a repeated availability check and the       *)
(*              evaluation of a proposal on a filled table;                *)
(*   SpecStore  every writer of the bookings table (commit, cancel,        *)
(*              student-count update, the admin routes of main.py) and a   *)
(*              dispatch.                                                  *)
(***************************************************************************)
EXTENDS Integers, Sequences, FiniteSets, TLC

\* ------------------------------------------------------------------ bounds
MaxTime == 2
MaxSched == 2
MaxCount == 2
MaxCap == 2

\* ------------------------------------------------------------- the values
Owners == {"alice", "bob"}

\* Python's None as returned in the "owner" / "booking" slots.
None == "None"

\* a well-formed interval: end > start
Intervals == {iv \in (0..MaxTime) \X (0..MaxTime) : iv[1] < iv[2]}

\* a row of the bookings table as check_availability reads it
ScheduleRows ==
  [start_time : 0..MaxTime, end_time : 0..MaxTime, booked_by : Owners]

WellFormedRows == {b \in ScheduleRows : b.start_time < b.end_time}

\* the intervals the sessions of Spec ask for: two that touch, and one that
\* spans both
Slots == {<<0, 1>>, <<1, 2>>, <<0, 2>>}

SeqsUpTo(S, n) == UNION {[1..k -> S] : k \in 0..n}

\* --------------------------------------------------- the database tables
MaxId == 2

\* the longest email prefix drawn
MaxPrefix == 2

\* a nullable text column holds NULL or one text, a text being its characters
NULL == <<>>

\* labs table (models.py:18-28): name -> row; ids are the primary keys
LabNames == {"L1", "L2"}

labs_table ==
  [n \in LabNames |->
     [id |-> IF n = "L1" THEN 1 ELSE 2, name |-> n,
      capacity |-> IF n = "L1" THEN 1 ELSE 2,
      description |-> IF n = "L1" THEN NULL ELSE <<<<"a", "c">>>>,
      equipment |-> IF n = "L1" THEN <<<<"a", "b">>>> ELSE <<<<"B">>>>]]

\* users table (models.py:6-15) and the User of each websocket session
\* (auth.py:26-31).  email_prefix is email.split('@')[0] as characters.
Users == {"alice", "bob", "eve"}

users_table ==
  [u \in Users |->
     CASE u = "alice" -> [username |-> u, role |-> "faculty",
                          email_prefix |-> <<"p", "1">>]
       [] u = "bob"   -> [username |-> u, role |-> "super_admin",
                          email_prefix |-> <<"b", "2">>]
       [] u = "eve"   -> [username |-> u, role |-> "student",
                          email_prefix |-> <<"m", "3">>]]

VARIABLES
  chk,       \* SpecCheck: the arguments and the result of one call
  bookings,  \* the bookings table: a set of rows
  next_id,   \* the next primary key of the bookings table
  pc,        \* per session: the await its running handler is suspended at
  req,       \* per session: the data of the message being handled
  local,     \* per session: the locals the handler holds across awaits
  sent,      \* the messages the last step sent, and the session it served
  recording, \* whether the specification observes sent (fixed by Init)
  schedule,  \* SpecShift: the Booking objects of one lab, as a list
  calls,     \* SpecShift: the calls made so far, each with what it returned
  disp,      \* SpecDispatch: the locals of one handle_availability_query
  lab_capacity,  \* the capacity column of the labs table, by lab name
  reputation_scores,  \* HeadLabAssistantAgent.reputation_scores, by lab agent
  deleted    \* the names of the labs and users whose rows an admin deleted

vars ==
  <<chk, bookings, next_id, pc, req, local, sent, recording, schedule, calls,
    disp, lab_capacity, reputation_scores, deleted>>

\* what the handlers of the sessions leave alone
unitvars ==
  <<chk, schedule, calls, disp, lab_capacity, reputation_scores, deleted>>

sysvars ==
  <<bookings, next_id, pc, req, local, sent, recording, lab_capacity,
    reputation_scores, deleted>>

\* ------------------------------------------- LabAgent.check_availability
\* the test of agents.py:85 with a closed end: touching intervals conflict
conflicts_closed(request_start, request_end, booking_data) ==
  (request_start <= booking_data.end_time)
    /\ (request_end > booking_data.start_time)

\* agents.py:85, the test of one scanned row against the request
conflicts(request_start, request_end, booking_data) ==
  (request_start < booking_data.end_time)
    /\ (request_end > booking_data.start_time)

\* the loop of agents.py:80-91 without its early return: the last row that
\* conflicts wins
scan_last(request_start, request_end, current_schedule, i) ==
  LET hits == {k \in i..Len(current_schedule) :
                 conflicts(request_start, request_end, current_schedule[k])}
  IN IF hits = {}
       THEN [status |-> "AVAILABLE", owner |-> None, booking |-> <<>>]
       ELSE LET k == CHOOSE h \in hits : \A g \in hits : g <= h
            IN [status |-> "CONFLICT_RIGID",
                owner |-> current_schedule[k].booked_by,
                booking |-> <<current_schedule[k]>>]

\* agents.py:80-91, the for loop from index i: the first row that conflicts
RECURSIVE scan(_, _, _, _)
scan(request_start, request_end, current_schedule, i) ==
  IF i > Len(current_schedule)
    THEN [status |-> "AVAILABLE", owner |-> None, booking |-> <<>>]
    ELSE IF conflicts(request_start, request_end, current_schedule[i])
      THEN [status |-> "CONFLICT_RIGID",
            owner |-> current_schedule[i].booked_by,
            booking |-> <<current_schedule[i]>>]
      ELSE scan(request_start, request_end, current_schedule, i + 1)

\* agents.py:75-93 with the capacity test moved below the scan
check_availability_scan_first(capacity, request_start, request_end, requested_student_count, current_schedule) ==
  LET scanned == scan(request_start, request_end, current_schedule, 1)
  IN IF scanned.status = "AVAILABLE" /\ capacity < requested_student_count
       THEN [status |-> "CONFLICT_CAPACITY", owner |-> None, booking |-> <<>>]
       ELSE scanned

\* agents.py:75-93.  The "booking" slot is <<>> for None, <<row>> otherwise.
check_availability(capacity, request_start, request_end, requested_student_count, current_schedule) ==
  IF capacity < requested_student_count
    THEN [status |-> "CONFLICT_CAPACITY", owner |-> None, booking |-> <<>>]
    ELSE scan(request_start, request_end, current_schedule, 1)

\* ------------------------------------------------ reading the database
Msg(t, d) == [type |-> t, data |-> d]

\* what one step sends on the websocket of session s (and broadcasts)
Sends(s, msgs) ==
  /\ sent' = IF recording THEN [to |-> s, msgs |-> msgs] ELSE sent
  /\ UNCHANGED recording

\* the rows of S in primary-key order, as fetch_all returns them
RECURSIVE by_id(_)
by_id(S) ==
  IF S = {} THEN <<>>
  ELSE LET first == CHOOSE b \in S : \A c \in S : b.id <= c.id
       IN <<first>> \o by_id(S \ {first})

\* simulation.py:210-211, bookings.select().where(lab_id == lab_record.id)
latest_schedule(lab_id) == by_id({b \in bookings : b.lab_id = lab_id})

\* simulation.py:232-237 without the upper() of line 233
booking_priority_case_sensitive(email_prefix) ==
  IF email_prefix # <<>> /\ email_prefix[1] = "P" THEN 1
  ELSE IF email_prefix # <<>> /\ email_prefix[1] = "B" THEN 2
  ELSE 3

\* simulation.py:232-237; upper() of the first character of the prefix
booking_priority(email_prefix) ==
  IF email_prefix # <<>> /\ email_prefix[1] \in {"p", "P"} THEN 1
  ELSE IF email_prefix # <<>> /\ email_prefix[1] \in {"b", "B"} THEN 2
  ELSE 3

\* simulation.py:232-247, the row written by bookings.insert().values(...)
\* for a user whose email has this prefix
booking_values(id, lab_id, user, email_prefix, data) ==
  [id |-> id, lab_id |-> lab_id,
   start_time |-> data.start_time, end_time |-> data.end_time,
   student_count |-> data.student_count, booked_by |-> user,
   priority |-> booking_priority(email_prefix)]

\* simulation.py:232-247 for a user of the users table
new_booking(id, lab_id, user, data) ==
  booking_values(id, lab_id, user, users_table[user].email_prefix, data)

\* simulation.py:214-229, the error sent when the slot is not AVAILABLE
booking_error(availability, user) ==
  IF availability.status = "CONFLICT_CAPACITY"
    THEN Msg("error", "exceeds lab capacity")
    ELSE IF availability.owner = user
      THEN Msg("error", "You have already booked this lab")
      ELSE Msg("error", availability.owner)

NoReq == [kind |-> "none"]

\* handlers that are suspended between their snapshot fetch and their insert
InFlight == {t \in Users : pc[t] \in {"book_fetch_schedule", "book_insert"}}

Finish(s) ==
  /\ pc' = [pc EXCEPT ![s] = "idle"]
  /\ req' = [req EXCEPT ![s] = NoReq]
  /\ local' = [local EXCEPT ![s] = NoReq]

\* ------------------------------- MultiAgentTrafficSystem.handle_booking_request
\* simulation.py:195-204 and 252-253 without the role check of 192-194
book_begin_any_role(s, lab_name, start_time, end_time, student_count) ==
  /\ pc[s] = "idle"
  /\ next_id + Cardinality(InFlight) <= MaxId
  /\ IF FALSE
       THEN /\ Sends(s, <<Msg("error", "Students cannot book labs")>>)
            /\ UNCHANGED <<pc, req, local>>
       ELSE IF lab_name \notin LabNames \ deleted \/ s \in deleted
         THEN /\ Sends(s, <<Msg("error", "Invalid lab or user")>>)
              /\ UNCHANGED <<pc, req, local>>
         ELSE /\ pc' = [pc EXCEPT ![s] = "book_fetch_schedule"]
              /\ req' = [req EXCEPT ![s] =
                           [kind |-> "book_slot", lab_name |-> lab_name,
                            start_time |-> start_time, end_time |-> end_time,
                            student_count |-> student_count]]
              /\ local' = [local EXCEPT ![s] =
                             [lab_id |-> labs_table[lab_name].id,
                              capacity |-> labs_table[lab_name].capacity]]
              /\ Sends(s, <<>>)
  /\ UNCHANGED <<bookings, next_id>>

\* simulation.py:190-204 and 252-253: the role check and the fetches of the
\* lab row and the user row.
book_begin(s, lab_name, start_time, end_time, student_count) ==
  /\ pc[s] = "idle"
  /\ next_id + Cardinality(InFlight) <= MaxId
  /\ IF users_table[s].role = "student"
       THEN /\ Sends(s, <<Msg("error", "Students cannot book labs")>>)
            /\ UNCHANGED <<pc, req, local>>
       ELSE IF lab_name \notin LabNames \ deleted \/ s \in deleted
         THEN /\ Sends(s, <<Msg("error", "Invalid lab or user")>>)
              /\ UNCHANGED <<pc, req, local>>
         ELSE /\ pc' = [pc EXCEPT ![s] = "book_fetch_schedule"]
              /\ req' = [req EXCEPT ![s] =
                           [kind |-> "book_slot", lab_name |-> lab_name,
                            start_time |-> start_time, end_time |-> end_time,
                            student_count |-> student_count]]
              /\ local' = [local EXCEPT ![s] =
                             [lab_id |-> labs_table[lab_name].id,
                              capacity |-> labs_table[lab_name].capacity]]
              /\ Sends(s, <<>>)
  /\ UNCHANGED <<bookings, next_id>>

\* simulation.py:206-229 deciding on the schedule as it was when the session
\* was set up (empty) instead of the snapshot fetched now
book_fetch_schedule_stale(s) ==
  /\ pc[s] = "book_fetch_schedule"
  /\ LET availability ==
           check_availability(local[s].capacity, req[s].start_time,
                              req[s].end_time, req[s].student_count, <<>>)
     IN IF availability.status # "AVAILABLE"
          THEN /\ Sends(s, <<booking_error(availability, s)>>)
               /\ Finish(s)
          ELSE /\ pc' = [pc EXCEPT ![s] = "book_insert"]
               /\ Sends(s, <<>>)
               /\ UNCHANGED <<req, local>>
  /\ UNCHANGED <<bookings, next_id>>

\* simulation.py:206-229 sending the error of line 228 without the return
\* of line 229
book_fetch_schedule_no_return(s) ==
  /\ pc[s] = "book_fetch_schedule"
  /\ LET availability ==
           check_availability(local[s].capacity, req[s].start_time,
                              req[s].end_time, req[s].student_count,
                              latest_schedule(local[s].lab_id))
     IN /\ pc' = [pc EXCEPT ![s] = "book_insert"]
        /\ Sends(s, IF availability.status # "AVAILABLE"
                      THEN <<booking_error(availability, s)>> ELSE <<>>)
        /\ UNCHANGED <<req, local>>
  /\ UNCHANGED <<bookings, next_id>>

\* simulation.py:206-229: the fresh snapshot and the final availability check
book_fetch_schedule(s) ==
  /\ pc[s] = "book_fetch_schedule"
  /\ LET availability ==
           check_availability(local[s].capacity, req[s].start_time,
                              req[s].end_time, req[s].student_count,
                              latest_schedule(local[s].lab_id))
     IN IF availability.status # "AVAILABLE"
          THEN /\ Sends(s, <<booking_error(availability, s)>>)
               /\ Finish(s)
          ELSE /\ pc' = [pc EXCEPT ![s] = "book_insert"]
               /\ Sends(s, <<>>)
               /\ UNCHANGED <<req, local>>
  /\ UNCHANGED <<bookings, next_id>>

\* simulation.py:232-248: await database.execute(bookings.insert())
book_insert(s) ==
  /\ pc[s] = "book_insert"
  /\ Sends(s, <<>>)
  /\ UNCHANGED <<req, local>>
  /\ \/ /\ bookings' = bookings \cup
                        {new_booking(next_id, local[s].lab_id, s, req[s])}
        /\ next_id' = next_id + 1
        /\ pc' = [pc EXCEPT ![s] = "book_notify"]
     \/ \* the lab row or the user row was deleted since line 201: a
        \* database that enforces the foreign keys of models.py:34-35
        \* refuses the insert and the exception ends the session
        /\ (req[s].lab_name \in deleted \/ s \in deleted)
        /\ pc' = [pc EXCEPT ![s] = "closed"]
        /\ UNCHANGED <<bookings, next_id>>

\* simulation.py:249-250: the confirmation and broadcast_schedule_update
book_notify(s) ==
  /\ pc[s] = "book_notify"
  /\ Sends(s, <<Msg("booking_confirmation", req[s].lab_name),
                Msg("schedule_update", "week")>>)
  /\ Finish(s)
  /\ UNCHANGED <<bookings, next_id>>

\* -------------------------------------------------- LabAgent.cancel_booking
\* agents.py:143-147, fetch_one of the rows of the lab that start at
\* start_time: the set it picks its one row from
cancel_candidates(lab_id, start_time) ==
  {b \in bookings : b.lab_id = lab_id /\ b.start_time = start_time}

\* agents.py:149-160, the verdict on the row that fetch_one returned
cancel_permitted(booking_to_remove, user) ==
  booking_to_remove.booked_by = user
    \/ users_table[user].role = "super_admin"

\* agents.py:160, the message of a refused cancellation
permission_denied(user, owner) ==
  "PERMISSION DENIED: " \o user \o " tried to cancel a booking owned by "
    \o owner

\* main.py:366-380: handle_cancellation_request returns None, so
\* result.get raises and the except clause sends str(e)
cancel_epilogue == <<Msg("error", "NoneType object has no attribute get")>>

\* simulation.py:255-284 with agents.py:134-161 and the dispatch of
\* main.py:363-380, as one step.  booking_id 0 and start_time_str <<>> are
\* the absent (falsy) fields of the message.
handle_cancellation_request(s, lab_name, booking_id, start_time_str) ==
  /\ pc[s] = "idle"
  /\ UNCHANGED <<next_id, pc, req, local>>
  /\ LET by_key == {b \in bookings : b.id = booking_id}
     IN
     IF lab_name \notin LabNames
       THEN /\ Sends(s, <<Msg("error", "Invalid lab agent")>> \o cancel_epilogue)
            /\ UNCHANGED bookings
     ELSE IF booking_id # 0 /\ by_key = {}
       THEN /\ Sends(s, <<Msg("error", "Booking not found")>> \o cancel_epilogue)
            /\ UNCHANGED bookings
     ELSE IF booking_id = 0 /\ start_time_str = <<>>
       THEN /\ Sends(s, <<Msg("error", "Booking identifier missing")>>
                          \o cancel_epilogue)
            /\ UNCHANGED bookings
     ELSE
       LET start_time == IF booking_id # 0
                           THEN (CHOOSE b \in by_key : TRUE).start_time
                           ELSE start_time_str[1]
           found == cancel_candidates(labs_table[lab_name].id, start_time)
       IN IF lab_name \in deleted
            THEN /\ Sends(s, <<Msg("error", "Lab not found")>>
                               \o cancel_epilogue)
                 /\ UNCHANGED bookings
          ELSE IF found = {}
            THEN /\ Sends(s, <<Msg("error", "Booking not found to cancel")>>
                               \o cancel_epilogue)
                 /\ UNCHANGED bookings
            ELSE \E booking_to_remove \in found :
                   IF cancel_permitted(booking_to_remove, s)
                     THEN /\ bookings' = bookings \ {booking_to_remove}
                          /\ Sends(s, <<Msg("log", "successfully cancelled"),
                                        Msg("schedule_update", "week")>>
                                      \o cancel_epilogue)
                     ELSE /\ UNCHANGED bookings
                          /\ Sends(s, <<Msg("error",
                                          permission_denied(s,
                                            booking_to_remove.booked_by))>>
                                      \o cancel_epilogue)

\* ----------------------- MultiAgentTrafficSystem.handle_student_count_update
\* simulation.py:286-316, as one step.  booking_id 0 and new_student_count
\* <<>> are the absent fields of the message.
handle_student_count_update(s, booking_id, new_student_count) ==
  /\ pc[s] = "idle"
  /\ UNCHANGED <<next_id, req, local>>
  /\ LET by_key == {b \in bookings : b.id = booking_id}
     IN
     IF booking_id = 0 \/ new_student_count = <<>>
       THEN /\ Sends(s, <<Msg("error", "Invalid data for update")>>)
            /\ UNCHANGED <<bookings, pc>>
     ELSE IF by_key = {}
       THEN /\ Sends(s, <<Msg("error", "Booking not found")>>)
            /\ UNCHANGED <<bookings, pc>>
     ELSE
       LET booking_record == CHOOSE b \in by_key : TRUE
           lab_record == CHOOSE l \in {[labs_table[n] EXCEPT
                                          !.capacity = lab_capacity[n]] :
                                        n \in LabNames} :
                           l.id = booking_record.lab_id
       IN IF ~(s = booking_record.booked_by
                 \/ users_table[s].role = "super_admin")
            THEN /\ Sends(s, <<Msg("error", "You cannot modify this booking")>>)
                 /\ UNCHANGED <<bookings, pc>>
          ELSE IF \E n \in deleted \cap LabNames :
                    labs_table[n].id = booking_record.lab_id
            \* line 307 fetches no lab row and line 308 reads .capacity of
            \* None: the AttributeError leaves the message loop
            THEN /\ pc' = [pc EXCEPT ![s] = "closed"]
                 /\ Sends(s, <<>>)
                 /\ UNCHANGED bookings
          ELSE IF new_student_count[1] > lab_record.capacity
            THEN /\ Sends(s, <<Msg("error", "Exceeds lab capacity")>>)
                 /\ UNCHANGED <<bookings, pc>>
          ELSE /\ bookings' = (bookings \ {booking_record}) \cup
                     {[booking_record EXCEPT
                         !.student_count = new_student_count[1]]}
               /\ Sends(s, <<Msg("log", "Student count updated"),
                             Msg("schedule_update", "week")>>)
               /\ UNCHANGED pc

\* --------------------------- MultiAgentTrafficSystem.handle_shift_request
\* simulation.py:149-160.  For a known lab the call of line 160 passes three
\* arguments to check_availability, which takes four: Python raises
\* TypeError there, nothing below line 160 runs, and the exception leaves
\* the message loop of main.py:340-387, which catches WebSocketDisconnect
\* only: the session is over.
handle_shift_request(s, lab_name) ==
  /\ pc[s] = "idle"
  /\ IF lab_name \notin LabNames
       THEN UNCHANGED pc
       ELSE pc' = [pc EXCEPT ![s] = "closed"]
  /\ Sends(s, <<>>)
  /\ UNCHANGED <<bookings, next_id, req, local>>

\* ------------------------------------------------------------- SpecCheck
\* One call of check_availability on arguments drawn from the bounded sets.
\* agents.py:28, the score every lab agent starts with
initial_reputation == 10

\* the labs table as initialize_system read it (simulation.py:320), and the
\* scores of the head agent it builds (simulation.py:324, agents.py:28)
LabsIdle ==
  /\ lab_capacity = [n \in LabNames |-> labs_table[n].capacity]
  /\ reputation_scores = [n \in LabNames |-> initial_reputation]
  /\ deleted = {}

\* the state of the system before any message is handled
SysIdle ==
  /\ LabsIdle
  /\ bookings = {}
  /\ next_id = 1
  /\ pc = [s \in Users |-> "idle"]
  /\ req = [s \in Users |-> NoReq]
  /\ local = [s \in Users |-> NoReq]
  /\ sent = [to |-> "nobody", msgs |-> <<>>]
  /\ recording = FALSE

ChkIdle == chk = [called |-> FALSE]

ShiftIdle == schedule = <<>> /\ calls = <<>>

DispIdle == disp = [phase |-> "idle"]

InitCheck ==
  \E cap \in 1..MaxCap, iv \in Intervals, n \in 1..(MaxCount + 1),
     sch \in SeqsUpTo(WellFormedRows, MaxSched) :
    /\ chk = [capacity |-> cap, request_start |-> iv[1], request_end |-> iv[2],
           student_count |-> n, schedule |-> sch,
           called |-> FALSE, result |-> <<>>]
    /\ SysIdle
    /\ ShiftIdle
    /\ DispIdle

CallCheck ==
  /\ ~chk.called
  /\ chk' = [chk EXCEPT
       !.called = TRUE,
       !.result = <<check_availability(chk.capacity, chk.request_start,
                       chk.request_end, chk.student_count, chk.schedule)>>]
  /\ UNCHANGED sysvars
  /\ UNCHANGED <<schedule, calls, disp>>

NextCheck == CallCheck

SpecCheck == InitCheck /\ [][NextCheck]_vars

\* ------------------------------------------------------------------ Spec
Init == SysIdle /\ ChkIdle /\ ShiftIdle /\ DispIdle

\* the cancel_booking messages: a booking_id, or else a start_time
CancelData ==
  {<<id, <<>>>> : id \in 0..MaxId} \cup {<<0, <<iv[1]>>>> : iv \in Slots}

BookBegin ==
  \E s \in Users, lab_name \in LabNames \cup {"ghost"}, iv \in Slots,
     student_count \in 1..3 :
    book_begin(s, lab_name, iv[1], iv[2], student_count) /\ UNCHANGED unitvars

BookFetchSchedule == \E s \in Users : book_fetch_schedule(s) /\ UNCHANGED unitvars

BookInsert == \E s \in Users : book_insert(s) /\ UNCHANGED unitvars

BookNotify == \E s \in Users : book_notify(s) /\ UNCHANGED unitvars

CancelBooking ==
  \E s \in Users, lab_name \in LabNames \cup {"ghost"}, d \in CancelData :
    handle_cancellation_request(s, lab_name, d[1], d[2]) /\ UNCHANGED unitvars

UpdateStudentCount ==
  \E s \in Users, booking_id \in 0..MaxId,
     new_student_count \in {<<>>} \cup {<<n>> : n \in 1..3} :
    handle_student_count_update(s, booking_id, new_student_count)
      /\ UNCHANGED unitvars

Next ==
  \/ BookBegin
  \/ BookFetchSchedule
  \/ BookInsert
  \/ BookNotify
  \/ CancelBooking
  \/ UpdateStudentCount

Spec == Init /\ [][Next]_vars

\* the sessions sending book_slot only, with the messages of every step
\* observed in sent
InitObserved ==
  /\ bookings = {}
  /\ next_id = 1
  /\ pc = [s \in Users |-> "idle"]
  /\ req = [s \in Users |-> NoReq]
  /\ local = [s \in Users |-> NoReq]
  /\ sent = [to |-> "nobody", msgs |-> <<>>]
  /\ recording = TRUE
  /\ LabsIdle
  /\ ChkIdle
  /\ ShiftIdle
  /\ DispIdle

NextCommit == BookBegin \/ BookFetchSchedule \/ BookInsert \/ BookNotify

SpecCommit == InitObserved /\ [][NextCommit]_vars

\* ------------------------------------------------------------ SpecInputs
\* book_slot messages whose interval or student count a client got wrong:
\* simulation.py:196-199 parses the fields and nothing checks them
MalformedSlots == {<<1, 1>>, <<2, 1>>}

BookBeginUnchecked ==
  \E s \in {"alice", "bob"}, lab_name \in LabNames,
     iv \in Slots \cup MalformedSlots, student_count \in (0 - 1)..2 :
    book_begin(s, lab_name, iv[1], iv[2], student_count) /\ UNCHANGED unitvars

NextInputs ==
  BookBeginUnchecked \/ BookFetchSchedule \/ BookInsert \/ BookNotify

SpecInputs == InitObserved /\ [][NextInputs]_vars

\* ---------------------------------------------------------- SpecPriority
\* Two commits reach the insert of simulation.py:232-247, each by a user
\* whose email prefix is drawn from the bounded set.
PrefixChars == {"p", "P", "b", "x"}

EmailPrefixes == SeqsUpTo(PrefixChars, MaxPrefix)

InitPriority ==
  /\ \E e1 \in EmailPrefixes, e2 \in EmailPrefixes, n \in LabNames,
        iv \in Slots, c \in 1..MaxCap :
       chk = [called |-> FALSE,
              commits |->
                <<[user |-> "alice", email_prefix |-> e1,
                   lab_id |-> labs_table[n].id,
                   data |-> [start_time |-> iv[1], end_time |-> iv[2],
                             student_count |-> c]],
                  [user |-> "bob", email_prefix |-> e2, lab_id |-> 1,
                   data |-> [start_time |-> 0, end_time |-> 1,
                             student_count |-> 1]]>>,
              rows |-> <<>>]
  /\ SysIdle
  /\ ShiftIdle
  /\ DispIdle

\* the next of the two commits computes its priority and writes its row
PriorityCommit ==
  /\ Len(chk.rows) < Len(chk.commits)
  /\ LET k == Len(chk.rows) + 1
         c == chk.commits[k]
     IN chk' = [chk EXCEPT
          !.called = TRUE,
          !.rows = @ \o <<booking_values(k, c.lab_id, c.user, c.email_prefix,
                                         c.data)>>]
  /\ UNCHANGED sysvars
  /\ UNCHANGED <<schedule, calls, disp>>

NextPriority == PriorityCommit

SpecPriority == InitPriority /\ [][NextPriority]_vars

\* ---------------------------------------------------------- SpecCapacity
\* The row of a lab is updated in the table; the LabAgent objects of the
\* sessions keep the capacity they were built with (simulation.py:327).
\* main.py:249-255 also lowering the student counts of the lab's bookings
\* to the new capacity
update_lab_trimming(lab_id, capacity, current_user) ==
  /\ lab_capacity' =
       IF users_table[current_user].role # "super_admin"
         THEN lab_capacity
         ELSE [n \in LabNames |->
                 IF labs_table[n].id = lab_id /\ n \notin deleted
                   THEN capacity
                   ELSE lab_capacity[n]]
  /\ bookings' =
       IF users_table[current_user].role # "super_admin"
         THEN bookings
         ELSE {IF b.lab_id = lab_id /\ b.student_count > capacity
                 THEN [b EXCEPT !.student_count = capacity] ELSE b :
               b \in bookings}
  /\ UNCHANGED <<next_id, pc, req, local, sent, recording,
                 reputation_scores, deleted>>

\* main.py:249-255, PUT /api/labs/{lab_id} with a capacity in the body
update_lab(lab_id, capacity, current_user) ==
  /\ lab_capacity' =
       IF users_table[current_user].role # "super_admin"
         THEN lab_capacity
         ELSE [n \in LabNames |->
                 IF labs_table[n].id = lab_id /\ n \notin deleted
                   THEN capacity
                   ELSE lab_capacity[n]]
  /\ UNCHANGED <<bookings, next_id, pc, req, local, sent, recording,
                 reputation_scores, deleted>>

UpdateLab ==
  \E lab_id \in 1..3, capacity \in 1..MaxCap, current_user \in Users :
    update_lab(lab_id, capacity, current_user)
      /\ UNCHANGED <<chk, schedule, calls, disp>>

NextCapacity ==
  BookBegin \/ BookFetchSchedule \/ BookInsert \/ BookNotify \/ UpdateLab

\* commits of the sessions interleaved with the capacity updates of an admin
SpecCapacity == Init /\ [][NextCapacity]_vars

\* ------------------------------------------------------------ SpecCancel
\* One cancel_booking message, served on a table that commits have filled.
\* the rows a commit of a faculty or admin user can have stored under id
StoredRows(id) ==
  {new_booking(id, labs_table[n].id, u,
               [start_time |-> iv[1], end_time |-> iv[2], student_count |-> c]) :
     n \in LabNames, u \in {"alice", "bob"}, iv \in Slots, c \in 1..MaxCap}

\* tables of at most two bookings, none over the capacity of its lab and no
\* two of one lab overlapping
StoredTables ==
  LET fits(r) == \E n \in LabNames :
                   labs_table[n].id = r.lab_id
                     /\ r.student_count <= labs_table[n].capacity
      apart(r, q) == r.lab_id # q.lab_id
                       \/ r.end_time <= q.start_time
                       \/ q.end_time <= r.start_time
      R1 == {r \in StoredRows(1) : fits(r)}
      R2 == {r \in StoredRows(2) : fits(r)}
  IN {{}} \cup {{r} : r \in R1 \cup R2}
       \cup UNION {{{r, q} : q \in {x \in R2 : apart(r, x)}} : r \in R1}

\* the data of a cancel_booking message (main.py:363-367)
CancelRequests ==
  {[kind |-> "cancel_booking", lab_name |-> n, booking_id |-> d[1],
    start_time_str |-> d[2]] : n \in LabNames \cup {"ghost"}, d \in CancelData}

InitCancel ==
  /\ bookings \in StoredTables
  /\ next_id = 1 + Cardinality(bookings)
  /\ pc = [s \in Users |-> "idle"]
  /\ \E s \in Users, m \in CancelRequests :
       req = [t \in Users |-> IF t = s THEN m ELSE NoReq]
  /\ local = [s \in Users |-> NoReq]
  /\ sent = [to |-> "nobody", msgs |-> <<>>]
  /\ recording = TRUE
  /\ LabsIdle
  /\ ChkIdle
  /\ ShiftIdle
  /\ DispIdle

\* the message loop hands the received cancel_booking message to its handler
CancelServe ==
  \E s \in Users :
    /\ req[s] # NoReq
    /\ sent.to = "nobody"
    /\ handle_cancellation_request(s, req[s].lab_name, req[s].booking_id,
                                   req[s].start_time_str)
    /\ UNCHANGED unitvars

NextCancel == CancelServe

SpecCancel == InitCancel /\ [][NextCancel]_vars

\* ------------------------------------------------------------ SpecShift
MaxFlex == 1
MaxShift == 1
MaxCalls == 2

\* simulation.py:169, reputation_scores.get(target_agent.name, 10); the
\* scores are created as 10 (agents.py:28) and nothing writes them
requester_reputation == 10

\* simulation.py:182, the shift taken for any counter-offer
counter_shift_minutes == 15

\* data_models.py:16-23, the Booking objects of the lab
Bookings ==
  {[booked_by |-> o, start_time |-> iv[1], end_time |-> iv[2],
    student_count |-> 1, flexibility_minutes |-> f] :
     o \in Owners, iv \in Slots, f \in 0..MaxFlex}

\* the replies of the agent, each the words of its text
Replies ==
  {<<"ACCEPT">>, <<" ", "accept">>, <<"COUNTER", "15">>, <<"COUNTER", "5">>,
   <<"REJECT">>, <<"Sorry">>}

\* agents.py:113-130: the text of the model's last message, whatever the
\* proposal, the booking and the reputation put into the prompt
evaluate_proposal(proposal, existing_booking, reputation) == Replies

\* str.strip, on the left end
RECURSIVE strip(_)
strip(text) ==
  IF text # <<>> /\ text[1] = " " THEN strip(Tail(text)) ELSE text

\* str.upper, word by word
upper(text) ==
  [k \in DOMAIN text |->
     CASE text[k] = "accept" -> "ACCEPT"
       [] text[k] = "counter" -> "COUNTER"
       [] text[k] = "reject" -> "REJECT"
       [] OTHER -> text[k]]

startswith(text, word) == text # <<>> /\ text[1] = word

\* simulation.py:174, 180, 187: the branch the workflow takes on a response
decision(response) ==
  IF startswith(upper(strip(response)), "ACCEPT") THEN "ACCEPT"
  ELSE IF startswith(upper(strip(response)), "COUNTER") THEN "COUNTER"
  ELSE "REJECT"

\* agents.py:109 alone: the Booking between the two += timedelta(minutes)
shifted_start_only(booking_to_shift, minutes) ==
  [booking_to_shift EXCEPT !.start_time = @ + minutes]

\* agents.py:109-110: the Booking after the two += timedelta(minutes)
shifted(booking_to_shift, minutes) ==
  [booking_to_shift EXCEPT !.start_time = @ + minutes,
                           !.end_time = @ + minutes]

\* agents.py:111: what shift_booking returns
shift_booking_returns == TRUE

\* agents.py:108-111 on the i-th Booking of the list
shift_booking(i, minutes) ==
  /\ Len(calls) < MaxCalls
  /\ schedule' = [schedule EXCEPT ![i] = shifted(schedule[i], minutes)]
  /\ calls' = Append(calls,
       [op |-> "shift_booking", target |-> i, minutes |-> <<minutes>>,
        before |-> schedule[i], returned |-> shift_booking_returns,
        reputation |-> 0, response |-> <<>>, decision |-> "none"])

\* simulation.py:161-188, the negotiation of handle_shift_request, entered
\* with the Booking i as conflicting_booking: the proposal, its evaluation,
\* and the shift on ACCEPT (by the flexibility) or on COUNTER
negotiate(i, response) ==
  /\ Len(calls) < MaxCalls
  /\ response \in evaluate_proposal(schedule[i].booked_by, schedule[i],
                                    requester_reputation)
  /\ LET shift_minutes ==
           CASE decision(response) = "ACCEPT" ->
                  <<schedule[i].flexibility_minutes>>
             [] decision(response) = "COUNTER" -> <<counter_shift_minutes>>
             [] OTHER -> <<>>
     IN /\ schedule' =
             IF shift_minutes = <<>> THEN schedule
             ELSE [schedule EXCEPT
                     ![i] = shifted(schedule[i], shift_minutes[1])]
        /\ calls' = Append(calls,
             [op |-> "negotiate", target |-> i, minutes |-> shift_minutes,
              before |-> schedule[i],
              returned |-> shift_minutes # <<>> /\ shift_booking_returns,
              reputation |-> requester_reputation,
              response |-> <<response>>, decision |-> decision(response)])

\* the Bookings of a lab at rest: no two of them overlap
AtRest(sch) ==
  \A i \in DOMAIN sch : \A j \in DOMAIN sch :
    i # j => ~conflicts(sch[i].start_time, sch[i].end_time, sch[j])

InitShift ==
  /\ schedule \in {sch \in SeqsUpTo(Bookings, 2) : sch # <<>> /\ AtRest(sch)}
  /\ calls = <<>>
  /\ SysIdle
  /\ ChkIdle
  /\ DispIdle

ShiftBooking ==
  \E i \in DOMAIN schedule, minutes \in (0 - MaxShift)..MaxShift :
    shift_booking(i, minutes) /\ UNCHANGED sysvars /\ UNCHANGED <<chk, disp>>

Negotiate ==
  \E i \in DOMAIN schedule, response \in Replies :
    negotiate(i, response) /\ UNCHANGED sysvars /\ UNCHANGED <<chk, disp>>

NextShift == ShiftBooking \/ Negotiate

SpecShift == InitShift /\ [][NextShift]_vars

\* ---------------------------------------------------------- SpecLabAgent
\* A commit on the lab whose Bookings the negotiation shifts.  The commit
\* checks the lab's schedule (simulation.py:207-229) and writes its booking
\* later (simulation.py:239-248); every await between the two lets another
\* handler run, and no lock or transaction is taken anywhere.
\* simulation.py:207-229: the final availability check of a commit
commit_check(start_time, end_time, booked_by) ==
  /\ ~chk.called
  /\ chk' = [called |-> TRUE, written |-> FALSE,
             booking |-> [booked_by |-> booked_by, start_time |-> start_time,
                          end_time |-> end_time, student_count |-> 1,
                          flexibility_minutes |-> 0],
             result |-> <<check_availability(MaxCap, start_time, end_time, 1,
                                             schedule)>>]
  /\ UNCHANGED <<schedule, calls>>

\* simulation.py:239-248: the write of a commit whose check was AVAILABLE
commit_write ==
  /\ chk.called
  /\ ~chk.written
  /\ chk.result[1].status = "AVAILABLE"
  /\ schedule' = Append(schedule, chk.booking)
  /\ chk' = [chk EXCEPT !.written = TRUE]
  /\ UNCHANGED calls

CommitCheck ==
  \E iv \in Slots, booked_by \in Owners :
    commit_check(iv[1], iv[2], booked_by)
      /\ UNCHANGED sysvars /\ UNCHANGED disp

CommitWrite == commit_write /\ UNCHANGED sysvars /\ UNCHANGED disp

NextLabAgent == CommitCheck \/ CommitWrite \/ ShiftBooking \/ Negotiate

SpecLabAgent == InitShift /\ [][NextLabAgent]_vars

\* ----------------------------------------------------------- SpecSession
\* Sessions whose client may have gone away.  A handler is not cancelled
\* when its client disconnects: its database calls go on, and the next
\* websocket.send_text raises, which ends the handler and the message loop
\* (main.py:340-387).
\* the send of simulation.py:228 or 249 raises: the error of a refused
\* commit, or the confirmation of a stored one
disconnected(s) ==
  /\ \/ pc[s] = "book_notify"
     \/ /\ pc[s] = "book_fetch_schedule"
        /\ check_availability(local[s].capacity, req[s].start_time,
             req[s].end_time, req[s].student_count,
             latest_schedule(local[s].lab_id)).status # "AVAILABLE"
  /\ pc' = [pc EXCEPT ![s] = "closed"]
  /\ Sends(s, <<>>)
  /\ UNCHANGED <<bookings, next_id, req, local>>

\* simulation.py:171-172: the reply of the agent has come and the send of
\* the log line raises, before any shift
negotiate_disconnected(i, response) ==
  /\ Len(calls) < MaxCalls
  /\ response \in evaluate_proposal(schedule[i].booked_by, schedule[i],
                                    requester_reputation)
  /\ calls' = Append(calls,
       [op |-> "negotiate", target |-> i, minutes |-> <<>>,
        before |-> schedule[i], returned |-> FALSE,
        reputation |-> requester_reputation,
        response |-> <<response>>, decision |-> "none"])
  /\ UNCHANGED schedule

InitSession ==
  /\ schedule \in {<<b>> : b \in {c \in Bookings : c.booked_by = "alice"
                                                   /\ c.start_time = 0
                                                   /\ c.end_time = 1}}
  /\ calls = <<>>
  /\ SysIdle
  /\ ChkIdle
  /\ DispIdle

SessionBegin ==
  \E s \in {"alice", "bob"}, iv \in Slots :
    book_begin(s, "L1", iv[1], iv[2], 1) /\ UNCHANGED unitvars

Disconnected == \E s \in Users : disconnected(s) /\ UNCHANGED unitvars

\* one negotiation, whose client stays
SessionNegotiate == calls = <<>> /\ Negotiate

\* one negotiation, whose client has gone away
NegotiateDisconnected ==
  \E i \in DOMAIN schedule, response \in Replies :
    /\ calls = <<>>
    /\ negotiate_disconnected(i, response)
    /\ UNCHANGED sysvars /\ UNCHANGED <<chk, disp>>

\* a request_shift message of the third session
ShiftRequest ==
  \E lab_name \in LabNames \cup {"ghost"} :
    handle_shift_request("eve", lab_name) /\ UNCHANGED unitvars

NextSession ==
  \/ SessionBegin
  \/ BookFetchSchedule
  \/ BookInsert
  \/ BookNotify
  \/ Disconnected
  \/ ShiftRequest
  \/ SessionNegotiate
  \/ NegotiateDisconnected

SpecSession == InitSession /\ [][NextSession]_vars

\* --------------------------------------------------------- SpecScenario
\* One lab of capacity 30 whose schedule holds one Booking, 10:00-11:00 by
\* alice with 20 minutes of flexibility, and a request for 10:30-11:30 with
\* 5 students; times are minutes of the day.
ScenarioBooking ==
  [booked_by |-> "alice", start_time |-> 600, end_time |-> 660,
   student_count |-> 1, flexibility_minutes |-> 20]

ScenarioRequest ==
  [capacity |-> 30, request_start |-> 630, request_end |-> 690,
   student_count |-> 5]

\* the minutes shift_booking is called with directly
ScenarioShifts == {15, 90}

InitScenario ==
  /\ schedule = <<ScenarioBooking>>
  /\ calls = <<>>
  /\ SysIdle
  /\ ChkIdle
  /\ DispIdle

\* agents.py:75-93 on the Bookings the lab holds now
ScenarioCheck ==
  /\ chk' = [capacity |-> ScenarioRequest.capacity,
             request_start |-> ScenarioRequest.request_start,
             request_end |-> ScenarioRequest.request_end,
             student_count |-> ScenarioRequest.student_count,
             schedule |-> schedule, called |-> TRUE,
             result |-> <<check_availability(ScenarioRequest.capacity,
                            ScenarioRequest.request_start,
                            ScenarioRequest.request_end,
                            ScenarioRequest.student_count, schedule)>>]
  /\ UNCHANGED sysvars
  /\ UNCHANGED <<schedule, calls, disp>>

ScenarioShift ==
  \E minutes \in ScenarioShifts :
    shift_booking(1, minutes) /\ UNCHANGED sysvars /\ UNCHANGED <<chk, disp>>

ScenarioNegotiate ==
  \E response \in Replies :
    negotiate(1, response) /\ UNCHANGED sysvars /\ UNCHANGED <<chk, disp>>

NextScenario == ScenarioCheck \/ ScenarioShift \/ ScenarioNegotiate

SpecScenario == InitScenario /\ [][NextScenario]_vars

\* --------------- MultiAgentTrafficSystem.handle_availability_query
\* simulation.py:318-328, self.lab_agents: one agent per row of labs.select()
lab_agents == <<"L1", "L2">>

\* str.lower() on the lab names that occur
lower(name) ==
  CASE name = "L1" -> "l1"
    [] name = "L2" -> "l2"
    [] name = "ZZ" -> "zz"
    [] OTHER -> name

\* the lower case of one character, as ILIKE folds it
fold(c) ==
  CASE c = "A" -> "a"
    [] c = "B" -> "b"
    [] c = "C" -> "c"
    [] OTHER -> c

\* SQL LIKE of a text against a pattern, case folded: % is any run of
\* characters, _ is any one character
RECURSIVE like(_, _)
like(text, pattern) ==
  IF pattern = <<>> THEN text = <<>>
  ELSE IF pattern[1] = "%"
    THEN \/ like(text, Tail(pattern))
         \/ text # <<>> /\ like(Tail(text), pattern)
    ELSE /\ text # <<>>
         /\ pattern[1] = "_" \/ fold(pattern[1]) = fold(text[1])
         /\ like(Tail(text), Tail(pattern))

\* simulation.py:89, column.ilike(f"%{item}%"); a NULL column matches nothing
ilike(column, item) ==
  column # NULL /\ like(column[1], <<"%">> \o item \o <<"%">>)

\* simulation.py:89-92, the labs the query of the equipment filter returns
matching_lab_names(requested_equipment) ==
  {n \in LabNames \ deleted :
     \A k \in DOMAIN requested_equipment :
       \/ ilike(labs_table[n].equipment, requested_equipment[k])
       \/ ilike(labs_table[n].description, requested_equipment[k])}

\* the truth value Python gives the parsed lab_name (None or a str) and
\* the parsed equipment (None or a list; None is written as the empty list)
truthy(value) == value \notin {None, ""}

nonempty(value) == value # <<>>

\* simulation.py:76-95 with the equipment filter applied in the name tier too
select_agents_combined(requested_lab_name, requested_equipment) ==
  IF truthy(requested_lab_name)
    THEN SelectSeq(lab_agents,
           LAMBDA a : /\ lower(a) = lower(requested_lab_name)
                      /\ nonempty(requested_equipment) =>
                           a \in matching_lab_names(requested_equipment))
    ELSE IF nonempty(requested_equipment)
      THEN SelectSeq(lab_agents,
             LAMBDA a : a \in matching_lab_names(requested_equipment))
      ELSE lab_agents

\* simulation.py:76-95 with an empty selection replaced by all the agents
select_agents_fallback(requested_lab_name, requested_equipment) ==
  LET named == SelectSeq(lab_agents,
                 LAMBDA a : lower(a) = lower(requested_lab_name))
      equipped == SelectSeq(lab_agents,
                    LAMBDA a : a \in matching_lab_names(requested_equipment))
  IN IF truthy(requested_lab_name)
       THEN IF named = <<>> THEN lab_agents ELSE named
       ELSE IF nonempty(requested_equipment)
         THEN IF equipped = <<>> THEN lab_agents ELSE equipped
         ELSE lab_agents

\* simulation.py:76-95, target_agents
select_agents(requested_lab_name, requested_equipment) ==
  IF truthy(requested_lab_name)
    THEN SelectSeq(lab_agents,
           LAMBDA a : lower(a) = lower(requested_lab_name))
    ELSE IF nonempty(requested_equipment)
      THEN SelectSeq(lab_agents,
             LAMBDA a : a \in matching_lab_names(requested_equipment))
      ELSE lab_agents

\* the i-th result paired with the i-th response to complete
results_as_completed(target_agents, responses, order) ==
  [i \in DOMAIN target_agents |->
     [lab_name |-> target_agents[i],
      status |-> responses[order[i]][1].status]]

\* simulation.py:111-119, results: enumerate(responses) against target_agents
results(target_agents, responses, order) ==
  [i \in DOMAIN target_agents |->
     [lab_name |-> target_agents[i], status |-> responses[i][1].status]]

\* simulation.py:44-101: the parsed request, its validation, the filtering
\* and the first messages; db_ok is whether the query of the equipment
\* filter answers
availability_begin(parsed_request, db_ok) ==
  /\ disp.phase = "idle"
  /\ LET target_agents == select_agents(parsed_request.lab_name,
                                        parsed_request.equipment)
         started ==
           [phase |-> "fetching", parsed_request |-> parsed_request,
            target_agents |-> target_agents, tasks |-> <<>>,
            pending |-> {}, order |-> <<>>, responses |-> <<>>,
            failed |-> {}, selected |-> TRUE,
            out |-> <<Msg("log", "Parsing")>>]
         Stop(msgs) ==
           [started EXCEPT !.phase = "done", !.target_agents = <<>>,
                           !.selected = FALSE,
                           !.out = @ \o msgs]
     IN disp' =
          IF parsed_request.parse = "no_date"
            THEN Stop(<<Msg("error", "could not understand")>>)
          ELSE IF parsed_request.parse = "bad_format"
            THEN Stop(<<Msg("log", "Parsed Request"),
                        Msg("error", "Invalid date/time format")>>)
          ELSE IF truthy(parsed_request.lab_name)
            THEN [started EXCEPT !.out = @ \o <<Msg("log", "Parsed Request"),
                    Msg("log", "Searching specifically"),
                    Msg("log", "Broadcasting request")>>]
          ELSE IF nonempty(parsed_request.equipment)
            THEN IF ~db_ok
                   THEN Stop(<<Msg("log", "Parsed Request"),
                               Msg("log", "Filtering for labs"),
                               Msg("error", "An error occurred")>>)
                 ELSE IF target_agents = <<>>
                   THEN [started EXCEPT !.phase = "done",
                           !.out = @ \o <<Msg("log", "Parsed Request"),
                             Msg("log", "Filtering for labs"),
                             Msg("log", "No labs found"),
                             Msg("availability_results", <<>>)>>]
                 ELSE [started EXCEPT
                           !.out = @ \o <<Msg("log", "Parsed Request"),
                             Msg("log", "Filtering for labs"),
                             Msg("log", "Broadcasting request")>>]
          ELSE [started EXCEPT !.out = @ \o <<Msg("log", "Parsed Request"),
                  Msg("log", "Broadcasting request")>>]

\* simulation.py:103-107, one turn of the loop: the fetches of the lab row
\* and of its bookings, and the coroutine appended to tasks; a fetch that
\* raises ends the handler in the except of simulation.py:123-124
availability_fetch(db_ok) ==
  /\ disp.phase = "fetching"
  /\ Len(disp.tasks) < Len(disp.target_agents)
  /\ LET agent == disp.target_agents[Len(disp.tasks) + 1]
         lab_record == labs_table[agent]
     IN disp' =
          IF db_ok /\ agent \notin deleted
            THEN [disp EXCEPT
                    !.tasks = Append(@,
                      [capacity |-> lab_capacity[agent],
                       current_schedule |-> latest_schedule(lab_record.id)]),
                    !.responses = Append(@, <<>>)]
            ELSE [disp EXCEPT
                    !.phase = "done", !.failed = {agent},
                    !.out = Append(@, Msg("error", "An error occurred"))]

\* simulation.py:109, await asyncio.gather(*tasks): the coroutines start
availability_gather ==
  /\ disp.phase = "fetching"
  /\ Len(disp.tasks) = Len(disp.target_agents)
  /\ disp' = [disp EXCEPT !.phase = "gathering",
                          !.pending = DOMAIN disp.tasks]

\* one of the gathered check_availability coroutines completes; gather keeps
\* its result at the position of the coroutine
availability_complete(k) ==
  /\ disp.phase = "gathering"
  /\ k \in disp.pending
  /\ disp' = [disp EXCEPT
       !.pending = @ \ {k},
       !.order = Append(@, k),
       !.responses[k] =
          <<check_availability(disp.tasks[k].capacity,
               disp.parsed_request.start_time, disp.parsed_request.end_time,
               disp.parsed_request.student_count,
               disp.tasks[k].current_schedule)>>]

\* simulation.py:109-121: gather returns when every coroutine has completed;
\* the results are built and sent
availability_emit ==
  /\ disp.phase = "gathering"
  /\ disp.pending = {}
  /\ disp' = [disp EXCEPT
       !.phase = "done",
       !.out = Append(@, Msg("availability_results",
                 results(disp.target_agents, disp.responses, disp.order)))]

\* ---------------------------------------------------------- SpecDispatch
\* the bookings table a dispatch runs against
DispatchRows ==
  {[id |-> 1, lab_id |-> 1, start_time |-> 0, end_time |-> 1,
    student_count |-> 1, booked_by |-> "alice", priority |-> 1],
   [id |-> 2, lab_id |-> 2, start_time |-> 1, end_time |-> 2,
    student_count |-> 1, booked_by |-> "bob", priority |-> 2]}

\* what parse_user_query (agents.py:30-60) may hand back
RequestedLabNames == {None, "", "l1", "L2", "ZZ"}

RequestedEquipment ==
  {<<>>, << <<"a">> >>, << <<"c">> >>, << <<"a">>, <<"c">> >>,
   << <<"b">>, <<"A">> >>, << <<"a", "_">> >>, << <<"d">> >>,
   << <<"a">>, <<"d">> >>}

ParsedRequests ==
  {[parse |-> "ok", lab_name |-> n, equipment |-> e, student_count |-> c,
    start_time |-> iv[1], end_time |-> iv[2]] :
     n \in RequestedLabNames, e \in RequestedEquipment, c \in 1..MaxCount,
     iv \in Slots}
  \cup {[parse |-> p, lab_name |-> None, equipment |-> <<>>,
         student_count |-> 1, start_time |-> 0, end_time |-> 1] :
          p \in {"no_date", "bad_format"}}

InitDispatch ==
  /\ bookings \in SUBSET DispatchRows
  /\ next_id = 3
  /\ pc = [s \in Users |-> "idle"]
  /\ req = [s \in Users |-> NoReq]
  /\ local = [s \in Users |-> NoReq]
  /\ sent = [to |-> "nobody", msgs |-> <<>>]
  /\ recording = FALSE
  /\ LabsIdle
  /\ ChkIdle
  /\ ShiftIdle
  /\ DispIdle

AvailabilityBegin ==
  \E parsed_request \in ParsedRequests, db_ok \in BOOLEAN :
    /\ availability_begin(parsed_request, db_ok)
    /\ UNCHANGED sysvars /\ UNCHANGED <<chk, schedule, calls>>

AvailabilityFetch ==
  \E db_ok \in BOOLEAN :
    /\ availability_fetch(db_ok)
    /\ UNCHANGED sysvars /\ UNCHANGED <<chk, schedule, calls>>

AvailabilityGather ==
  availability_gather /\ UNCHANGED sysvars /\ UNCHANGED <<chk, schedule, calls>>

AvailabilityComplete ==
  \E k \in 1..Len(lab_agents) :
    /\ availability_complete(k)
    /\ UNCHANGED sysvars /\ UNCHANGED <<chk, schedule, calls>>

AvailabilityEmit ==
  availability_emit /\ UNCHANGED sysvars /\ UNCHANGED <<chk, schedule, calls>>

NextDispatch ==
  \/ AvailabilityBegin
  \/ AvailabilityFetch
  \/ AvailabilityGather
  \/ AvailabilityComplete
  \/ AvailabilityEmit

SpecDispatch == InitDispatch /\ [][NextDispatch]_vars

\* ----------------------------------------------------------- SpecExplore
\* The read-only operations: one dispatch, an availability check made twice
\* on one lab, and one evaluation of a proposal.
\* simulation.py:169, the score read for the agent asked
reputation_get(name) ==
  IF name \in DOMAIN reputation_scores THEN reputation_scores[name]
  ELSE requester_reputation

\* simulation.py:169-172 granting the reputation increase that the proposal
\* of line 167 promises, when the agent accepts
evaluate_rewarding(i, response) ==
  /\ calls = <<>>
  /\ response \in evaluate_proposal(schedule[i].booked_by, schedule[i],
                                    reputation_get(lab_agents[1]))
  /\ calls' = Append(calls,
       [op |-> "evaluate_proposal", target |-> i, minutes |-> <<>>,
        before |-> schedule[i], returned |-> FALSE,
        reputation |-> reputation_get(lab_agents[1]),
        response |-> <<response>>, decision |-> decision(response)])
  /\ reputation_scores' =
       IF decision(response) = "ACCEPT"
         THEN [reputation_scores EXCEPT ![lab_agents[1]] = @ + 1]
         ELSE reputation_scores
  /\ UNCHANGED schedule

\* simulation.py:169-172: the score is read, the proposal is evaluated and
\* the reply is logged
evaluate(i, response) ==
  /\ calls = <<>>
  /\ response \in evaluate_proposal(schedule[i].booked_by, schedule[i],
                                    reputation_get(lab_agents[1]))
  /\ calls' = Append(calls,
       [op |-> "evaluate_proposal", target |-> i, minutes |-> <<>>,
        before |-> schedule[i], returned |-> FALSE,
        reputation |-> reputation_get(lab_agents[1]),
        response |-> <<response>>, decision |-> decision(response)])
  /\ UNCHANGED <<schedule, reputation_scores>>

\* simulation.py:103-107 with agents.py:75-93: the bookings of the lab are
\* fetched and checked against the request; the call and its result are
\* kept in chk
availability_check(lab_name, request_start, request_end, student_count) ==
  /\ Len(chk.results) < 2
  /\ chk' = [called |-> TRUE, lab_name |-> lab_name,
             request_start |-> request_start, request_end |-> request_end,
             student_count |-> student_count,
             results |-> Append(chk.results,
               check_availability(labs_table[lab_name].capacity,
                 request_start, request_end, student_count,
                 latest_schedule(labs_table[lab_name].id)))]

\* the requests of the dispatch explored here
ExploreRequests ==
  {r \in ParsedRequests : /\ r.parse = "ok"
                          /\ r.lab_name \in {None, "l1"}
                          /\ r.equipment = <<>>
                          /\ r.student_count = 1}

InitExplore ==
  /\ bookings \in SUBSET DispatchRows
  /\ next_id = 3
  /\ pc = [s \in Users |-> "idle"]
  /\ req = [s \in Users |-> NoReq]
  /\ local = [s \in Users |-> NoReq]
  /\ sent = [to |-> "nobody", msgs |-> <<>>]
  /\ recording = FALSE
  /\ LabsIdle
  /\ chk = [called |-> FALSE, results |-> <<>>]
  /\ schedule \in {<<b>> : b \in {c \in Bookings : c.booked_by = "alice"
                                                   /\ c.start_time = 0
                                                   /\ c.end_time = 1}}
  /\ calls = <<>>
  /\ DispIdle

ExploreBegin ==
  \E parsed_request \in ExploreRequests :
    /\ availability_begin(parsed_request, TRUE)
    /\ UNCHANGED sysvars /\ UNCHANGED <<chk, schedule, calls>>

\* the first check, on a request drawn here
ExploreCheck ==
  \E lab_name \in LabNames, iv \in Slots, student_count \in 1..MaxCount :
    /\ ~chk.called
    /\ availability_check(lab_name, iv[1], iv[2], student_count)
    /\ UNCHANGED sysvars /\ UNCHANGED <<schedule, calls, disp>>

\* the same check, made again
ExploreRecheck ==
  /\ chk.called
  /\ availability_check(chk.lab_name, chk.request_start, chk.request_end,
                        chk.student_count)
  /\ UNCHANGED sysvars /\ UNCHANGED <<schedule, calls, disp>>

ExploreEvaluate ==
  \E i \in DOMAIN schedule, response \in Replies :
    /\ evaluate(i, response)
    /\ UNCHANGED <<bookings, next_id, pc, req, local, sent, recording,
                   lab_capacity, deleted>>
    /\ UNCHANGED <<chk, disp>>

NextExplore ==
  \/ ExploreBegin
  \/ AvailabilityFetch
  \/ AvailabilityGather
  \/ AvailabilityComplete
  \/ AvailabilityEmit
  \/ ExploreCheck
  \/ ExploreRecheck
  \/ ExploreEvaluate

SpecExplore == InitExplore /\ [][NextExplore]_vars

\* ------------------------------------------------------------- SpecStore
\* Every operation that writes the bookings table, with a dispatch and the
\* capacity update of an admin beside them.
\* main.py:257-269, DELETE /api/labs/{lab_id}: the bookings of the lab are
\* deleted, then its row
delete_lab(lab_id, current_user) ==
  /\ users_table[current_user].role = "super_admin"
  /\ bookings' = {b \in bookings : b.lab_id # lab_id}
  /\ deleted' = deleted \cup {n \in LabNames : labs_table[n].id = lab_id}
  /\ UNCHANGED <<next_id, pc, req, local, sent, recording, lab_capacity,
                 reputation_scores>>

\* main.py:301-306, DELETE /api/bookings/{booking_id}
delete_booking(booking_id, current_user) ==
  /\ users_table[current_user].role = "super_admin"
  /\ bookings' = {b \in bookings : b.id # booking_id}
  /\ UNCHANGED <<next_id, pc, req, local, sent, recording, lab_capacity,
                 reputation_scores, deleted>>

\* main.py:436-455, DELETE /users/delete/{user_id}: the bookings of the
\* user are deleted, then the row; an admin's row is never deleted
delete_user(target_user, current_user) ==
  /\ users_table[current_user].role = "super_admin"
  /\ target_user \notin deleted
  /\ users_table[target_user].role # "super_admin"
  /\ bookings' = {b \in bookings : b.booked_by # target_user}
  /\ deleted' = deleted \cup {target_user}
  /\ UNCHANGED <<next_id, pc, req, local, sent, recording, lab_capacity,
                 reputation_scores>>

\* the sessions of the two users who book, the admin's requests and one
\* availability query
StoreBegin ==
  \E s \in {"alice", "bob"}, lab_name \in LabNames :
    book_begin(s, lab_name, 0, 1, 1) /\ UNCHANGED unitvars

StoreCancel ==
  \E s \in {"alice", "bob"}, lab_name \in LabNames, booking_id \in 1..MaxId :
    handle_cancellation_request(s, lab_name, booking_id, <<>>)
      /\ UNCHANGED unitvars

StoreUpdateCount ==
  \E s \in {"alice", "bob"}, booking_id \in 1..MaxId, n \in 1..MaxCount :
    handle_student_count_update(s, booking_id, <<n>>) /\ UNCHANGED unitvars

StoreUpdateLab ==
  \E capacity \in 1..MaxCap :
    update_lab(2, capacity, "bob") /\ UNCHANGED <<chk, schedule, calls, disp>>

DeleteLab ==
  delete_lab(1, "bob") /\ UNCHANGED <<chk, schedule, calls, disp>>

DeleteBooking ==
  \E booking_id \in 1..MaxId :
    delete_booking(booking_id, "bob")
      /\ UNCHANGED <<chk, schedule, calls, disp>>

DeleteUser ==
  delete_user("alice", "bob") /\ UNCHANGED <<chk, schedule, calls, disp>>

StoreDispatch ==
  \E parsed_request \in {r \in ExploreRequests :
                           r.lab_name = "l1" /\ r.start_time = 0
                                             /\ r.end_time = 1} :
    /\ availability_begin(parsed_request, TRUE)
    /\ UNCHANGED sysvars /\ UNCHANGED <<chk, schedule, calls>>

StoreFetch ==
  /\ availability_fetch(TRUE)
  /\ UNCHANGED sysvars /\ UNCHANGED <<chk, schedule, calls>>

NextStore ==
  \/ StoreBegin
  \/ BookFetchSchedule
  \/ BookInsert
  \/ BookNotify
  \/ StoreCancel
  \/ StoreUpdateCount
  \/ StoreUpdateLab
  \/ DeleteLab
  \/ DeleteBooking
  \/ DeleteUser
  \/ StoreDispatch
  \/ StoreFetch
  \/ AvailabilityGather
  \/ AvailabilityComplete
  \/ AvailabilityEmit

SpecStore == Init /\ [][NextStore]_vars

\* -------------------------------------------------- claims on SpecCheck
\* the overlap of two intervals, as the data model states it
Overlap(a, b) == a.start_time < b.end_time /\ a.end_time > b.start_time

Requested == [start_time |-> chk.request_start, end_time |-> chk.request_end]

Touches(a, b) == a.end_time = b.start_time \/ b.end_time = a.start_time

\* C3: the conflict test of the availability check gives the same answer
\* with request and booking exchanged, and a booking that touches the
\* request (one ends where the other starts) neither conflicts nor is
\* reported as the blocking booking.
C3_SymmetricHalfOpen ==
  chk.called =>
    \A i \in DOMAIN chk.schedule :
      LET b == chk.schedule[i]
      IN /\ conflicts(chk.request_start, chk.request_end, b)
              = conflicts(b.start_time, b.end_time, Requested)
         /\ Touches(Requested, b) =>
              /\ ~conflicts(chk.request_start, chk.request_end, b)
              /\ chk.result[1].booking # <<b>>

C3_Witness ==
  /\ chk.called
  /\ chk.result[1].status = "AVAILABLE"
  /\ \E i \in DOMAIN chk.schedule :
       chk.schedule[i].end_time = chk.request_start

\* C4: a check with more students than the capacity answers
\* CONFLICT_CAPACITY with no owner and no booking, whatever the snapshot.
C4_CapacityFirst ==
  (chk.called /\ chk.student_count > chk.capacity) =>
    chk.result[1] =
      [status |-> "CONFLICT_CAPACITY", owner |-> None, booking |-> <<>>]

C4_Witness ==
  /\ chk.called
  /\ chk.student_count > chk.capacity
  /\ \E i \in DOMAIN chk.schedule : Overlap(Requested, chk.schedule[i])
  /\ chk.result[1].status = "CONFLICT_CAPACITY"

\* C5: a check within the capacity answers AVAILABLE exactly when no row of
\* the snapshot overlaps the request, and otherwise CONFLICT_RIGID with the
\* first overlapping row in snapshot order and that row's owner.
C5_FirstConflict ==
  (chk.called /\ chk.student_count <= chk.capacity) =>
    LET hits == {i \in DOMAIN chk.schedule :
                   Overlap(Requested, chk.schedule[i])}
    IN IF hits = {}
         THEN chk.result[1] =
                [status |-> "AVAILABLE", owner |-> None, booking |-> <<>>]
         ELSE LET first == CHOOSE h \in hits : \A g \in hits : h <= g
              IN chk.result[1] =
                   [status |-> "CONFLICT_RIGID",
                    owner |-> chk.schedule[first].booked_by,
                    booking |-> <<chk.schedule[first]>>]

C5_Witness ==
  /\ chk.called
  /\ chk.student_count <= chk.capacity
  /\ Len(chk.schedule) = 2
  /\ Overlap(Requested, chk.schedule[1])
  /\ Overlap(Requested, chk.schedule[2])
  /\ chk.schedule[1].booked_by # chk.schedule[2].booked_by
  /\ chk.result[1].owner = chk.schedule[1].booked_by

\* ------------------------------------------------------- claims on Spec

\* C1: in every reachable state no two stored bookings of the same lab have
\* overlapping intervals.
C1_NoOverlapAtRest ==
  \A a \in bookings : \A b \in bookings :
    (a.id # b.id /\ a.lab_id = b.lab_id) => ~Overlap(a, b)

\* C2: while one commit is between its availability check on the fresh
\* snapshot and its insert, no other commit on the same lab takes its fetch
\* or its insert step.
C2_CommitsSerialized ==
  [][\A s \in Users : \A t \in Users :
       (/\ s # t
        /\ pc[s] = "book_insert"
        /\ pc[t] \in {"book_fetch_schedule", "book_insert"}
        /\ local[t].lab_id = local[s].lab_id
        /\ Overlap(req[s], req[t]))
       => pc'[t] = pc[t]]_vars

\* -------------------------------------------------- claims on SpecShift
Negotiations == {k \in DOMAIN calls : calls[k].op = "negotiate"}

Min(a, b) == IF a <= b THEN a ELSE b

\* the decision policy the claims state
Policy(F, R, rho, tau) ==
  IF R <= F /\ rho >= tau THEN "ACCEPT"
  ELSE IF R > 2 * F THEN "REJECT"
  ELSE "COUNTER"

\* the requested shifts and thresholds a policy may be read with: with
\* F <= MaxFlex every case of Policy occurs among them
RequiredShifts == 0..(2 * MaxFlex + 1)
Thresholds == {requester_reputation, requester_reputation + 1}

\* C6: the negotiation decision is a function of (F, R, rho, tau): for some
\* threshold tau, and for each proposal some requested shift R, every
\* negotiation of that proposal decides Policy(F, R, rho, tau)
C6_DecisionIsPolicy ==
  \E tau \in Thresholds :
    \A k \in Negotiations :
      \E R \in RequiredShifts :
        \A n \in Negotiations :
          calls[n].before = calls[k].before =>
            calls[n].decision =
              Policy(calls[n].before.flexibility_minutes, R,
                     calls[n].reputation, tau)

\* C7: whenever the decision is COUNTER the shift taken as the offer is
\* min(F, R) for some requested shift R, or floor(F / 2)
C7_CounterOffer ==
  \A k \in Negotiations :
    calls[k].decision = "COUNTER" =>
      LET F == calls[k].before.flexibility_minutes
      IN \/ \E R \in RequiredShifts : calls[k].minutes = <<Min(F, R)>>
         \/ calls[k].minutes = <<F \div 2>>

\* C8: the decision is monotonic in reputation: of two negotiations of the
\* same proposal (same F and R) with reputations rho1 <= rho2, if the first
\* decides ACCEPT then so does the second
C8_MonotonicInReputation ==
  \A k \in Negotiations : \A n \in Negotiations :
    (/\ calls[k].before = calls[n].before
     /\ calls[k].reputation <= calls[n].reputation
     /\ calls[k].decision = "ACCEPT")
      => calls[n].decision = "ACCEPT"

\* the last call, when it shifted a Booking
LastShift == calls # <<>> /\ calls[Len(calls)].minutes # <<>>

\* the Booking the last call would produce overlaps another of the lab
LastShiftConflicts ==
  LET c == calls[Len(calls)]
      moved == shifted(c.before, c.minutes[1])
  IN \E j \in DOMAIN schedule :
       j # c.target /\ conflicts(moved.start_time, moved.end_time, schedule[j])

\* C9: a shift moves start and end by the same minutes and is committed only
\* after re-validation: after a shift reported as successful the Booking has
\* its duration and overlaps no other Booking of the lab
C9_ShiftRevalidated ==
  LET c == calls[Len(calls)]
      b == schedule[c.target]
  IN (LastShift /\ c.returned) =>
       /\ b.end_time - b.start_time = c.before.end_time - c.before.start_time
       /\ \A j \in DOMAIN schedule :
            j # c.target => ~conflicts(b.start_time, b.end_time, schedule[j])

\* C10: when the shifted interval conflicts with another Booking of the lab
\* the shift is reverted, start and end equal to their values before it, and
\* the caller does not receive the outcome of a successful shift
C10_ShiftReverted ==
  LET c == calls[Len(calls)]
      b == schedule[c.target]
  IN (LastShift /\ LastShiftConflicts) =>
       /\ b.start_time = c.before.start_time
       /\ b.end_time = c.before.end_time
       /\ ~c.returned

\* the minutes a COUNTER reply names after its first word
OfferedMinutes(response) ==
  CASE Len(response) >= 2 /\ response[2] = "5" -> <<5>>
    [] Len(response) >= 2 /\ response[2] = "15" -> <<15>>
    [] OTHER -> <<>>

\* C12: whenever a shift is applied as the result of a COUNTER decision, the
\* minutes applied to the Booking are the minutes the decision offered
C12_CounterShiftIsOffer ==
  \A k \in Negotiations :
    (calls[k].decision = "COUNTER" /\ calls[k].minutes # <<>>)
      => calls[k].minutes = OfferedMinutes(calls[k].response[1])

\* C13: an exchange ends in exactly one of ACCEPT, REJECT and COUNTER, and
\* an exchange that ends in COUNTER leaves the target Booking where it was
C13_CounterIsTerminal ==
  \A k \in Negotiations :
    /\ calls[k].decision \in {"ACCEPT", "REJECT", "COUNTER"}
    /\ calls[k].decision = "COUNTER" => calls[k].minutes = <<>>

\* ----------------------------------------------- claims on SpecScenario
\* the check recorded in chk was made on the schedule as it is now
CheckedNow == chk.called /\ chk.schedule = schedule

\* C11: the check of 10:30-11:30 for 5 students yields CONFLICT_RIGID with
\* owner alice; the proposal at reputation 10 yields ACCEPT; the shift by 15
\* makes the Booking 10:15-11:15; the check of the same request on the
\* shifted schedule yields AVAILABLE
C11_ScenarioTrace ==
  /\ (CheckedNow /\ calls = <<>>) =>
       /\ chk.result[1].status = "CONFLICT_RIGID"
       /\ chk.result[1].owner = "alice"
  /\ (calls # <<>> /\ calls[1].op = "negotiate") =>
       calls[1].decision = "ACCEPT"
  /\ (Len(calls) = 1 /\ calls[1].minutes = <<15>>) =>
       /\ schedule[1].start_time = 615
       /\ schedule[1].end_time = 675
  /\ (CheckedNow /\ Len(calls) = 1 /\ calls[1].minutes = <<15>>) =>
       chk.result[1].status = "AVAILABLE"

\* the last step of the scenario alone: after the shift by 15 the check of
\* the request yields AVAILABLE
C11_RecheckAvailable ==
  (CheckedNow /\ calls # <<>> /\ schedule[1].start_time = 615) =>
    chk.result[1].status = "AVAILABLE"

\* ----------------------------------------------- claims on SpecDispatch
\* the filtering of a dispatch has run to its end
Selected == disp.phase # "idle" /\ disp.selected

Candidates == {disp.target_agents[i] : i \in DOMAIN disp.target_agents}

NamedLabs(name) == {a \in LabNames : lower(a) = lower(name)}

\* the availability_results messages the dispatch has sent
Aggregates ==
  IF disp.phase = "idle" THEN {}
  ELSE {k \in DOMAIN disp.out : disp.out[k].type = "availability_results"}

Errors ==
  IF disp.phase = "idle" THEN {}
  ELSE {k \in DOMAIN disp.out : disp.out[k].type = "error"}

\* C14: the candidates come from exactly one tier: with a lab_name, the labs
\* of that name whatever the equipment asked for; else with equipment, the
\* labs the equipment filter matches; else all the labs
C14_OneTier ==
  Selected =>
    LET name == disp.parsed_request.lab_name
        equipment == disp.parsed_request.equipment
    IN IF truthy(name) THEN Candidates = NamedLabs(name)
       ELSE IF nonempty(equipment)
         THEN Candidates = matching_lab_names(equipment)
         ELSE Candidates = LabNames

\* a lab_name and equipment are both given, and the named lab lacks it
C14_Witness ==
  /\ Selected
  /\ truthy(disp.parsed_request.lab_name)
  /\ nonempty(disp.parsed_request.equipment)
  /\ Candidates # {}
  /\ Candidates \cap matching_lab_names(disp.parsed_request.equipment) = {}

\* the filter that applies to the request selects no lab
FilterSelectsNone ==
  LET name == disp.parsed_request.lab_name
      equipment == disp.parsed_request.equipment
  IN IF truthy(name) THEN NamedLabs(name) = {}
     ELSE nonempty(equipment) /\ matching_lab_names(equipment) = {}

\* C15: when the applicable filter selects no lab there is no candidate from
\* another tier, no error is sent, and the dispatch ends with the empty
\* result list
C15_EmptySelection ==
  (Selected /\ FilterSelectsNone) =>
    /\ disp.target_agents = <<>>
    /\ Errors = {}
    /\ disp.phase = "done" =>
         /\ Aggregates = {Len(disp.out)}
         /\ disp.out[Len(disp.out)].data = <<>>

\* a name that no lab has, with equipment that some lab has: the dispatch
\* has ended
C15_Witness ==
  /\ Selected
  /\ disp.phase = "done"
  /\ truthy(disp.parsed_request.lab_name)
  /\ NamedLabs(disp.parsed_request.lab_name) = {}
  /\ matching_lab_names(disp.parsed_request.equipment) # {}
  /\ nonempty(disp.parsed_request.equipment)

\* tag occurs in the column as a substring, case folded
Substring(tag, column) ==
  /\ column # NULL
  /\ \E i \in 1..(Len(column[1]) - Len(tag) + 1) :
       \A k \in DOMAIN tag : fold(column[1][i + k - 1]) = fold(tag[k])

\* C16: under the equipment filter a lab is a candidate if and only if every
\* requested tag is a substring, case folded, of its equipment or of its
\* description
C16_AllTagsSubstring ==
  (/\ Selected
   /\ ~truthy(disp.parsed_request.lab_name)
   /\ nonempty(disp.parsed_request.equipment))
    => Candidates =
         {a \in LabNames :
            \A k \in DOMAIN disp.parsed_request.equipment :
              \/ Substring(disp.parsed_request.equipment[k],
                           labs_table[a].equipment)
              \/ Substring(disp.parsed_request.equipment[k],
                           labs_table[a].description)}

\* C17: the result list has one result per candidate, the i-th result names
\* the i-th candidate and carries the status of that candidate's own check,
\* in whatever order the checks completed
C17_ResultOrder ==
  \A m \in Aggregates :
    LET result_list == disp.out[m].data
    IN /\ Len(result_list) = Len(disp.target_agents)
       /\ \A i \in DOMAIN result_list :
            /\ result_list[i].lab_name = disp.target_agents[i]
            /\ result_list[i].status =
                 check_availability(disp.tasks[i].capacity,
                   disp.parsed_request.start_time,
                   disp.parsed_request.end_time,
                   disp.parsed_request.student_count,
                   disp.tasks[i].current_schedule).status

\* the second check completed before the first, the two statuses differ and
\* the results have been sent
C17_Witness ==
  /\ disp.phase = "done"
  /\ Aggregates # {}
  /\ disp.order = <<2, 1>>
  /\ disp.responses[1][1].status # disp.responses[2][1].status

\* C18: when the query of one selected lab fails, the aggregate is still
\* sent, with an entry for every selected lab, and no error replaces it
C18_PartialFailure ==
  (disp.phase = "done" /\ disp.failed # {}) =>
    /\ \E m \in Aggregates :
         Len(disp.out[m].data) = Len(disp.target_agents)
    /\ Errors = {}

\* C19: an aggregate is sent only when the query of every selected lab has
\* completed, and a dispatch sends exactly one aggregate
C19_FanInBarrier ==
  /\ Aggregates # {} =>
       /\ disp.pending = {}
       /\ Len(disp.tasks) = Len(disp.target_agents)
       /\ Len(disp.order) = Len(disp.target_agents)
  /\ Cardinality(Aggregates) <= 1
  /\ (Selected /\ disp.phase = "done") => Cardinality(Aggregates) = 1

\* ------------------------------------------------- claims on SpecCommit
Students == {s \in Users : users_table[s].role = "student"}

\* the step just taken served a book_slot of a student
StudentServed == sent.to \in Students

\* C20: a book_slot of a student is answered by the permission error alone,
\* before any fetch of the schedule: the student's handler never reaches the
\* fetch, the step leaves the bookings table as it was and sends no
\* schedule_update, and no stored booking was made by a student
C20_StudentCommitDenied ==
  /\ [](/\ \A s \in Students : pc[s] = "idle"
        /\ StudentServed =>
             sent.msgs = <<Msg("error", "Students cannot book labs")>>
        /\ \A b \in bookings : b.booked_by \notin Students)
  /\ [][(sent' # sent /\ sent'.to \in Students) =>
          (bookings' = bookings /\ next_id' = next_id)]_vars

\* a student was just refused while the table holds a booking
C20_Witness ==
  /\ StudentServed
  /\ sent.msgs = <<Msg("error", "Students cannot book labs")>>
  /\ bookings # {}

\* the stored bookings that block the request session s holds
Blockers(s) ==
  {b \in bookings : b.lab_id = local[s].lab_id /\ Overlap(b, req[s])}

\* session s takes the step that fetches the schedule and checks it
Fetches(s) == pc[s] = "book_fetch_schedule" /\ pc'[s] # pc[s]

\* C21: a commit decides on the schedule as stored when it fetches: once a
\* booking of A that overlaps B's request is stored, B's commit (within the
\* capacity, so AVAILABLE on the empty schedule) is rejected with the error
\* that names A and persists nothing
C21_CommitSeesStored ==
  [][\A s \in Users :
       (/\ Fetches(s)
        /\ Blockers(s) # {}
        /\ req[s].student_count <= local[s].capacity)
         => /\ pc'[s] = "idle"
            /\ bookings' = bookings
            /\ \A a \in Users \ {s} :
                 (\A b \in Blockers(s) : b.booked_by = a)
                   => sent'.msgs = <<Msg("error", a)>>]_vars

\* bob has just been refused with the error naming alice, whose booking is
\* stored
C21_Witness ==
  /\ sent.to = "bob"
  /\ sent.msgs = <<Msg("error", "alice")>>
  /\ \E b \in bookings : b.booked_by = "alice"

\* the messages of a commit that went through
CommitNotices ==
  <<Msg("booking_confirmation", "L1"), Msg("booking_confirmation", "L2"),
    Msg("schedule_update", "week")>>

Notified ==
  \E k \in DOMAIN sent.msgs : \E n \in DOMAIN CommitNotices :
    sent.msgs[k] = CommitNotices[n]

CancelActors == {s \in Users : req[s] # NoReq /\ sent.to = "nobody" /\ sent'.to = s}

\* the bookings a cancel request identifies: the one with its booking_id,
\* or else those of the named lab that start at its start_time
CancelTargets(m) ==
  IF m.booking_id # 0
    THEN {b \in bookings : b.id = m.booking_id}
    ELSE {b \in bookings : /\ m.lab_name \in LabNames
                           /\ b.lab_id = labs_table[m.lab_name].id
                           /\ m.start_time_str # <<>>
                           /\ b.start_time = m.start_time_str[1]}

\* the actor owns the booking or has the admin role
CancelAllowed(b, actor) ==
  b.booked_by = actor \/ users_table[actor].role = "super_admin"

\* C23: a cancel request on a known lab removes the booking it identifies
\* when the actor owns it or is an admin; from any other actor it leaves the
\* stored bookings unchanged and is answered by the PERMISSION DENIED error
\* naming the actor and the owner
C23_CancelPermission ==
  [][\A s \in CancelActors : \A b \in CancelTargets(req[s]) :
       req[s].lab_name \in LabNames =>
         IF CancelAllowed(b, s)
           THEN b \notin bookings'
           ELSE /\ bookings' = bookings
                /\ sent'.msgs # <<>>
                /\ sent'.msgs[1] = Msg("error", permission_denied(s, b.booked_by))]_vars

\* the capacity stored now for the lab with this id
StoredCapacity(lab_id) ==
  lab_capacity[CHOOSE n \in LabNames : labs_table[n].id = lab_id]

\* C24: every booking a commit inserts has student_count at most the
\* capacity stored for its lab at that moment, whatever capacity updates
\* came before
C24_WithinStoredCapacity ==
  [][\A b \in bookings' \ bookings :
       b.student_count <= StoredCapacity(b.lab_id)]_vars

\* the category code of a requester: the first letter of the email prefix,
\* in upper case, or none
Category(email_prefix) ==
  IF email_prefix = <<>> THEN "none"
  ELSE IF email_prefix[1] \in {"p", "P"} THEN "P"
  ELSE IF email_prefix[1] \in {"b", "B"} THEN "B"
  ELSE "other"

\* C25: the priority stored with a committed booking is 1 for category P, 2
\* for category B and 3 otherwise, so two commits of one category store the
\* same priority whatever their lab, interval and student count, and every
\* stored priority is 1, 2 or 3
C25_PriorityByCategory ==
  /\ \A k \in DOMAIN chk.rows :
       /\ chk.rows[k].priority \in {1, 2, 3}
       /\ chk.rows[k].priority =
            (CASE Category(chk.commits[k].email_prefix) = "P" -> 1
               [] Category(chk.commits[k].email_prefix) = "B" -> 2
               [] OTHER -> 3)
  /\ \A k \in DOMAIN chk.rows : \A j \in DOMAIN chk.rows :
       Category(chk.commits[k].email_prefix)
           = Category(chk.commits[j].email_prefix)
         => chk.rows[k].priority = chk.rows[j].priority

\* two commits of category P with different prefixes, labs, intervals and
\* student counts, both stored with priority 1
C25_Witness ==
  /\ Len(chk.rows) = 2
  /\ chk.commits[1].email_prefix = <<"p", "x">>
  /\ chk.commits[2].email_prefix = <<"P">>
  /\ chk.rows[1].lab_id # chk.rows[2].lab_id
  /\ chk.rows[1].start_time # chk.rows[2].start_time
  /\ chk.rows[1].student_count # chk.rows[2].student_count
  /\ chk.rows[1].priority = 1
  /\ chk.rows[2].priority = 1

\* C26: every stored booking has end > start and student_count >= 1 (a
\* commit with a malformed interval or a non-positive student count is
\* rejected and persists nothing)
C26_StoredWellFormed ==
  \A b \in bookings : b.end_time > b.start_time /\ b.student_count >= 1

\* a commit has checked the schedule and has not yet written its booking
CommitPending ==
  chk.called /\ ~chk.written /\ chk.result[1].status = "AVAILABLE"

\* C27: a shift and a commit on one lab exclude each other: no shift writes
\* the schedule between a commit's check and its write, and once a commit
\* and a shift have both been applied the schedule holds no overlapping pair
C27_ShiftCommitExclusive ==
  /\ [][CommitPending => (schedule' = schedule \/ chk'.written)]_vars
  /\ []((chk.called /\ chk.written /\ calls # <<>>) => AtRest(schedule))

\* the booking that the commit of session s stores when it is fully applied
FullRow(s) ==
  [id |-> next_id, lab_id |-> labs_table[req[s].lab_name].id,
   start_time |-> req[s].start_time, end_time |-> req[s].end_time,
   student_count |-> req[s].student_count, booked_by |-> s,
   priority |-> (CASE Category(users_table[s].email_prefix) = "P" -> 1
                   [] Category(users_table[s].email_prefix) = "B" -> 2
                   [] OTHER -> 3)]

\* the schedule with its i-th Booking moved as a whole by d
Translated(sch, i, d) ==
  [sch EXCEPT ![i] = [@ EXCEPT !.start_time = @ + d, !.end_time = @ + d]]

\* C28: whatever the sessions do and wherever a client has gone away, each
\* step leaves the stored bookings as they were or adds the one complete row
\* of a commit, and leaves the lab's Bookings as they were or moves one of
\* them as a whole
C28_NoPartialState ==
  [][/\ \/ bookings' = bookings
        \/ \E s \in Users :
             /\ pc[s] = "book_insert"
             /\ bookings' = bookings \cup {FullRow(s)}
     /\ \/ schedule' = schedule
        \/ \E i \in DOMAIN schedule :
             \E d \in {counter_shift_minutes, schedule[i].flexibility_minutes} :
               schedule' = Translated(schedule, i, d)]_vars

\* a client went away after its commit was stored and before it was
\* confirmed, and a negotiation has shifted a Booking
C28_Witness ==
  /\ \E s \in Users :
       /\ pc[s] = "closed"
       /\ req[s] # NoReq
       /\ \E b \in bookings :
            b.booked_by = s /\ b.start_time = req[s].start_time
  /\ \E k \in DOMAIN calls :
       calls[k].minutes # <<>> /\ calls[k].before # schedule[calls[k].target]

\* C29: a shift request on a known lab is answered with an outcome of the
\* negotiation; it never ends the session with an error thrown out of the
\* handler
C29_ShiftNeverThrows ==
  [][\A s \in Users : pc[s] = "idle" => pc'[s] # "closed"]_vars

\* C31: a dispatch, an availability check and the evaluation of a proposal
\* leave every stored booking, every Booking of the lab and every reputation
\* score as they were, and an availability check made again on the same lab,
\* interval and student count gives the same result
C31_ExplorationReadOnly ==
  /\ [][/\ bookings' = bookings
        /\ schedule' = schedule
        /\ reputation_scores' = reputation_scores]_vars
  /\ [](Len(chk.results) = 2 => chk.results[1] = chk.results[2])

\* on a filled table a dispatch has sent its results, a check that found a
\* conflict has been repeated, and a proposal has been accepted
C31_Witness ==
  /\ bookings # {}
  /\ disp.phase = "done"
  /\ disp.responses # <<>>
  /\ Len(chk.results) = 2
  /\ chk.results[1].status = "CONFLICT_RIGID"
  /\ calls # <<>>
  /\ calls[1].decision = "ACCEPT"

\* the ways a stored booking fares in one step: it stays as it is, its
\* student count alone is rewritten while every other row stays, or its id
\* leaves the table and nothing is added
Kept(b) == b \in bookings'

Recounted(b) ==
  \E c \in bookings' :
    /\ c # b
    /\ c = [b EXCEPT !.student_count = c.student_count]
    /\ c.student_count <= StoredCapacity(b.lab_id)
    /\ bookings' = (bookings \ {b}) \cup {c}

Removed(b) ==
  /\ \A c \in bookings' : c.id # b.id
  /\ bookings' \subseteq bookings

C33_CancelRemovesNamedBooking ==
  [][\A s \in CancelActors : \A b \in CancelTargets(req[s]) :
       (req[s].booking_id # 0 /\ req[s].lab_name \in LabNames
          /\ CancelAllowed(b, s))
         => bookings' = bookings \ {b}]_vars

\* the error events among the messages sent for a request
ErrorEvents(msgs) == {k \in DOMAIN msgs : msgs[k].type = "error"}

\* C34: a cancel request is answered by one outcome that agrees with the
\* table: no error event when a booking was removed, and exactly one error
\* event when none was
C34_CancelOneOutcome ==
  [][\A s \in CancelActors :
       IF bookings' # bookings
         THEN ErrorEvents(sent'.msgs) = {}
         ELSE Cardinality(ErrorEvents(sent'.msgs)) = 1]_vars

\* C35: the minutes offered in a COUNTER reply and the minutes by which a
\* negotiation shifts a Booking, after ACCEPT or after COUNTER, are at most
\* the flexibility_minutes of that Booking
C35_FlexibilityCeiling ==
  \A k \in Negotiations :
    LET F == calls[k].before.flexibility_minutes
        offer == OfferedMinutes(calls[k].response[1])
    IN /\ calls[k].minutes # <<>> => calls[k].minutes[1] <= F
       /\ (calls[k].decision = "COUNTER" /\ offer # <<>>) => offer[1] <= F

\* C36: for every F, R, rho and tau the ACCEPT and the REJECT condition are
\* not both true, every negotiation decides exactly one of ACCEPT, REJECT and
\* COUNTER, and every COUNTER carries an offered shift in 0..F
C36_PolicyTotalAndOfferInRange ==
  /\ \A F \in 0..MaxFlex, R \in RequiredShifts, tau \in Thresholds :
       ~((R <= F /\ requester_reputation >= tau) /\ R > 2 * F)
  /\ \A k \in Negotiations :
       LET F == calls[k].before.flexibility_minutes
           offer == OfferedMinutes(calls[k].response[1])
       IN /\ calls[k].decision \in {"ACCEPT", "REJECT", "COUNTER"}
          /\ calls[k].decision = "COUNTER"
               => (offer # <<>> /\ offer[1] \in 0..F)

====
